---- MODULE Spec2Model ----
(***************************************************************************)
(* Model of the terramind spatial query backend: the template matcher and  *)
(* parameter extraction (lib/queryTemplates.ts), the entity resolver and   *)
(* the Turf spatial processor (lib/spatialProcessor.ts), the oracle        *)
(* adapter (lib/openai.ts) and the two request handlers                    *)
(* (app/api/query/route.ts, app/api/spatial/route.ts).                     *)
(*                                                                         *)
(* JavaScript strings are TLA+ strings; toLowerCase, includes, the three   *)
(* regular expressions and parseInt are computed character by character.   *)
(* A JavaScript value is a tagged record [t |-> type, v |-> value].        *)
(***************************************************************************)
EXTENDS Integers, Sequences, FiniteSets, TLC

VARIABLES
  pc,        \* position of the handler / function pipeline being run
  query,     \* the query of the request (a JavaScript value)
  template,  \* result of findMatchingTemplate
  params,    \* result of extractParameters
  tplOp,     \* result of createSpatialOperation
  citiesData,  \* the feature collection handed to findFeatureByName
  cityName,    \* the place name handed to findFeatureByName
  cityFeature, \* outcome of findFeatureByName
  store,       \* the layer files: layer name -> features
  body,        \* the body of a request to the operation endpoint
  oracleEnd,   \* how the call of the language-model service ended
  aiResult,    \* outcome of SpatialAIEngine.interpretQuery
  spatialOperation,  \* the operation the handler works on
  flatData,    \* the features loaded for the operation's layers
  response,    \* the response of the request
  oracleCalls, \* number of calls made to the language-model service
  fetchLog,    \* the calls of loadGeoJSONData so far: layer and outcome
  engineLog,   \* the operations handed to processOperation so far
  engineOut,   \* outcome of processOperation: the Result list or the error
  now,         \* Date.now(): the clock of the server, in milliseconds
  tempFiles,   \* the files of os.tmpdir(): file name -> content
  requests     \* the script-run requests in flight: the locals of each POST

vars == <<pc, query, template, params, tplOp, citiesData, cityName, cityFeature,
          store, body, oracleEnd, aiResult, spatialOperation, flatData, response,
          oracleCalls, fetchLog, engineLog, engineOut, now, tempFiles, requests>>

----------------------------------------------------------------------------
(* JavaScript values *)

Undefined == [t |-> "undefined"]
Null == [t |-> "null"]
Str(s) == [t |-> "string", v |-> s]
Num(n) == [t |-> "number", v |-> n]
IsString(x) == x.t = "string"
\* JavaScript truthiness of a value
Truthy(x) ==
  CASE x.t = "undefined" -> FALSE
    [] x.t = "null" -> FALSE
    [] x.t = "string" -> x.v # ""
    [] x.t = "number" -> x.v # 0
    [] OTHER -> TRUE

\* obj[key] of an object modelled as a function: undefined for a missing key
Get(obj, key) == IF key \in DOMAIN obj THEN obj[key] ELSE Undefined

----------------------------------------------------------------------------
(* String primitives *)

UpperChars == "ABCDEFGHIJKLMNOPQRSTUVWXYZ"
LowerChars == "abcdefghijklmnopqrstuvwxyz"
DigitChars == "0123456789"

CharAt(s, i) == SubSeq(s, i, i)
CharsOf(alphabet) == {CharAt(alphabet, i) : i \in 1..Len(alphabet)}
IndexIn(alphabet, c) == CHOOSE i \in 1..Len(alphabet) : CharAt(alphabet, i) = c
LowerOf == [c \in CharsOf(UpperChars) |-> CharAt(LowerChars, IndexIn(UpperChars, c))]
DigitValue == [c \in CharsOf(DigitChars) |-> IndexIn(DigitChars, c) - 1]
Letters == CharsOf(UpperChars) \cup CharsOf(LowerChars)
LowerChar(c) == IF c \in DOMAIN LowerOf THEN LowerOf[c] ELSE c
IsDigit(c) == c \in DOMAIN DigitValue
IsSpace(c) == c = " "
IsAlphaOrSpace(c) == c \in Letters \/ IsSpace(c)

RECURSIVE ToLowerCase(_)
ToLowerCase(s) ==
  IF Len(s) = 0 THEN ""
  ELSE LowerChar(CharAt(s, 1)) \o ToLowerCase(SubSeq(s, 2, Len(s)))

\* String.prototype.includes
Includes(s, sub) ==
  \E i \in 1..(Len(s) - Len(sub) + 1) : SubSeq(s, i, i + Len(sub) - 1) = sub

StartsWith(s, prefix) == Len(s) >= Len(prefix) /\ SubSeq(s, 1, Len(prefix)) = prefix
EndsWith(s, suffix) ==
  Len(s) >= Len(suffix) /\ SubSeq(s, Len(s) - Len(suffix) + 1, Len(s)) = suffix

\* String.prototype.trim (the only white space of the model is the blank)
RECURSIVE Trim(_)
Trim(s) ==
  IF Len(s) = 0 THEN ""
  ELSE IF IsSpace(CharAt(s, 1)) THEN Trim(SubSeq(s, 2, Len(s)))
  ELSE IF IsSpace(CharAt(s, Len(s))) THEN Trim(SubSeq(s, 1, Len(s) - 1))
  ELSE s

\* parseInt of a string of decimal digits
RECURSIVE ParseInt(_)
ParseInt(s) ==
  IF Len(s) = 0 THEN 0
  ELSE ParseInt(SubSeq(s, 1, Len(s) - 1)) * 10 + DigitValue[CharAt(s, Len(s))]

----------------------------------------------------------------------------
(* Query templates *)

SPATIAL_QUERY_TEMPLATES == <<
  [pattern |-> "coastline within {distance} miles of {location}",
   layers |-> <<"coastline">>, operation |-> "BUFFER",
   spatialOperation |-> [type |-> "BUFFER",
     parameters |-> [distance |-> Str("{distance}"), units |-> Str("miles")]]],
  [pattern |-> "cities within {distance} miles of {location}",
   layers |-> <<"cities">>, operation |-> "WITHIN",
   spatialOperation |-> [type |-> "WITHIN",
     parameters |-> [distance |-> Str("{distance}"), units |-> Str("miles"),
                     targetGeometry |-> Str("{location}")]]],
  [pattern |-> "states that border {state}",
   layers |-> <<"states">>, operation |-> "TOUCHES",
   spatialOperation |-> [type |-> "TOUCHES",
     parameters |-> [targetState |-> Str("{state}")]]],
  [pattern |-> "rivers that flow through {state}",
   layers |-> <<"rivers", "states">>, operation |-> "INTERSECTS",
   spatialOperation |-> [type |-> "INTERSECTS",
     parameters |-> [targetState |-> Str("{state}")]]],
  [pattern |-> "lakes larger than {area} square miles",
   layers |-> <<"lakes">>, operation |-> "AREA_FILTER",
   spatialOperation |-> [type |-> "AREA_FILTER",
     parameters |-> [minArea |-> Str("{area}"), units |-> Str("square_miles")]]],
  [pattern |-> "intersection of {layer1} and {layer2}",
   layers |-> <<"{layer1}", "{layer2}">>, operation |-> "INTERSECTS",
   spatialOperation |-> [type |-> "INTERSECTS",
     parameters |-> [layer1 |-> Str("{layer1}"), layer2 |-> Str("{layer2}")]]]
>>

NoTemplate == [pattern |-> "null"]

\* The six keyword rules of findMatchingTemplate, on the lower-cased query
StatesBorderRule(q) ==
  Includes(q, "states") /\ (Includes(q, "border") \/ Includes(q, "borders"))
CoastlineRule(q) ==
  /\ Includes(q, "coastline")
  /\ (Includes(q, "within") \/ Includes(q, "near"))
  /\ (Includes(q, "miles") \/ Includes(q, "mile"))
CitiesRule(q) ==
  /\ Includes(q, "cities")
  /\ (Includes(q, "within") \/ Includes(q, "near"))
  /\ (Includes(q, "miles") \/ Includes(q, "mile"))
RiversRule(q) ==
  Includes(q, "rivers") /\ (Includes(q, "flow through") \/ Includes(q, "through"))
LakesRule(q) ==
  Includes(q, "lakes") /\ (Includes(q, "larger than") \/ Includes(q, "bigger than"))
IntersectionRule(q) ==
  Includes(q, "intersection") \/ (Includes(q, "intersect") /\ Includes(q, "and"))

\* The body of the for loop: every rule that holds returns the loop's current
\* template, whatever rule it is.
RECURSIVE MatchFrom(_, _)
MatchFrom(normalizedQuery, i) ==
  IF i > Len(SPATIAL_QUERY_TEMPLATES) THEN NoTemplate
  ELSE LET tpl == SPATIAL_QUERY_TEMPLATES[i] IN
    IF StatesBorderRule(normalizedQuery) THEN tpl
    ELSE IF CoastlineRule(normalizedQuery) THEN tpl
    ELSE IF CitiesRule(normalizedQuery) THEN tpl
    ELSE IF RiversRule(normalizedQuery) THEN tpl
    ELSE IF LakesRule(normalizedQuery) THEN tpl
    ELSE IF IntersectionRule(normalizedQuery) THEN tpl
    ELSE MatchFrom(normalizedQuery, i + 1)

findMatchingTemplate(q) == MatchFrom(ToLowerCase(q), 1)

----------------------------------------------------------------------------
(* extractParameters: the three regular expressions *)

\* last index of the maximal run of characters satisfying P that starts at i
\* (i - 1 when the run is empty)
RunEnd(s, i, P(_)) ==
  CHOOSE j \in (i - 1)..Len(s) :
    /\ \A k \in i..j : P(CharAt(s, k))
    /\ (j = Len(s) \/ ~P(CharAt(s, j + 1)))

\* the lower-cased text of s from position i starts with word
LowerAt(s, i, word) ==
  /\ i + Len(word) - 1 <= Len(s)
  /\ ToLowerCase(SubSeq(s, i, i + Len(word) - 1)) = word

\* /(\d+)\s*miles?/i matches at position i
DistanceMatchAt(s, i) ==
  /\ IsDigit(CharAt(s, i))
  /\ LowerAt(s, RunEnd(s, RunEnd(s, i, IsDigit) + 1, IsSpace) + 1, "mile")

\* /(\d+)\s*square\s*miles?/i matches at position i
AreaMatchAt(s, i) ==
  /\ IsDigit(CharAt(s, i))
  /\ LET a == RunEnd(s, RunEnd(s, i, IsDigit) + 1, IsSpace) + 1 IN
       /\ LowerAt(s, a, "square")
       /\ LowerAt(s, RunEnd(s, a + 6, IsSpace) + 1, "mile")

LocationWords == {"of", "near", "through"}

\* /(?:of|near|through)\s+([A-Za-z\s]+)/i matches at position i: the keyword,
\* at least one blank, and at least one letter or blank for the group (a blank
\* given back by \s+ when no letter follows)
LocationMatchAt(s, i) ==
  \E w \in LocationWords :
    /\ LowerAt(s, i, w)
    /\ LET b == i + Len(w)
           e == RunEnd(s, b, IsSpace)
       IN  /\ e >= b
           /\ \/ (e < Len(s) /\ IsAlphaOrSpace(CharAt(s, e + 1)))
              \/ e > b

\* the text captured by the group of the location expression matched at i
LocationGroup(s, i) ==
  LET w == CHOOSE x \in LocationWords :
             /\ LowerAt(s, i, x)
             /\ \A y \in LocationWords : LowerAt(s, i, y) => Len(y) <= Len(x)
      b == i + Len(w)
      e == RunEnd(s, b, IsSpace)
  IN  IF e < Len(s) /\ IsAlphaOrSpace(CharAt(s, e + 1))
      THEN SubSeq(s, e + 1, RunEnd(s, e + 1, IsAlphaOrSpace))
      ELSE " "

\* leftmost match position of a pattern, 0 when there is none
FirstMatch(s, MatchAt(_, _)) ==
  IF \E i \in 1..Len(s) : MatchAt(s, i)
  THEN CHOOSE i \in 1..Len(s) : MatchAt(s, i) /\ \A j \in 1..(i - 1) : ~MatchAt(s, j)
  ELSE 0

extractParameters(q) ==
  LET d == FirstMatch(q, DistanceMatchAt)
      l == FirstMatch(q, LocationMatchAt)
      a == FirstMatch(q, AreaMatchAt)
      keys == (IF d > 0 THEN {"distance"} ELSE {})
                \cup (IF l > 0 THEN {"location"} ELSE {})
                \cup (IF a > 0 THEN {"area"} ELSE {})
  IN  [k \in keys |->
        CASE k = "distance" -> Num(ParseInt(SubSeq(q, d, RunEnd(q, d, IsDigit))))
          [] k = "location" -> Str(Trim(LocationGroup(q, l)))
          [] k = "area" -> Num(ParseInt(SubSeq(q, a, RunEnd(q, a, IsDigit))))]

----------------------------------------------------------------------------
(* createSpatialOperation *)

IsPlaceholder(value) == IsString(value) /\ StartsWith(value.v, "{") /\ EndsWith(value.v, "}")

\* An operation is [type, parameters, layers], each a JavaScript value: a
\* string, an object (a function from keys to values), an array (a sequence)
Obj(f) == [t |-> "object", v |-> f]
Arr(seq) == [t |-> "array", v |-> seq]
NoKeys == [k \in {} |-> Undefined]

createSpatialOperation(tpl, p) ==
  [type |-> Str(tpl.spatialOperation.type),
   parameters |-> Obj(
     [key \in DOMAIN tpl.spatialOperation.parameters |->
        LET value == tpl.spatialOperation.parameters[key] IN
          IF IsPlaceholder(value)
          THEN Get(p, SubSeq(value.v, 2, Len(value.v) - 1))
          ELSE value]),
   layers |-> Arr(tpl.layers)]

----------------------------------------------------------------------------
(* Outcomes of a call: a returned value or a thrown error *)

Return(x) == [ok |-> TRUE, value |-> x]
Throw(msg) == [ok |-> FALSE, error |-> msg]
NotCalled == [ok |-> FALSE, error |-> "not called"]

----------------------------------------------------------------------------
(* SpatialUtils.findFeatureByName *)

\* feature.properties?.NAME?.toLowerCase(): undefined when the key is absent
LowerProp(feature, key) ==
  LET x == Get(feature.properties, key) IN
    IF IsString(x) THEN Str(ToLowerCase(x.v)) ELSE Undefined

IsUSCountry(country) == country = Str("united states") \/ country = Str("usa")

\* Array.prototype.find with a predicate that may throw: the first feature, in
\* collection order, at which the predicate holds or throws decides the outcome
Find(fs, Holds(_), Throws(_)) ==
  IF \E i \in 1..Len(fs) : Holds(fs[i]) \/ Throws(fs[i])
  THEN LET i == CHOOSE k \in 1..Len(fs) :
                  /\ Holds(fs[k]) \/ Throws(fs[k])
                  /\ \A j \in 1..(k - 1) : ~(Holds(fs[j]) \/ Throws(fs[j]))
       IN  IF Throws(fs[i])
           THEN Throw("TypeError: Cannot read properties of undefined (reading 'includes')")
           ELSE Return([index |-> i, feature |-> fs[i]])
  ELSE Return(Undefined)

Never(f) == FALSE
\* featureName.includes(...) is evaluated on undefined when NAME is absent
NameMissing(f) == LowerProp(f, "NAME") = Undefined

\* mutant: the country of the exact match is not looked at
IsUsSanFrancisco_AnyCountry(f) == LowerProp(f, "NAME") = Str("san francisco")

IsUsSanFrancisco(f) ==
  LowerProp(f, "NAME") = Str("san francisco") /\ IsUSCountry(LowerProp(f, "SOV0NAME"))
IsUsSanFranciscoLike(f) ==
  /\ Includes(LowerProp(f, "NAME").v, "san francisco")
  /\ IsUSCountry(LowerProp(f, "SOV0NAME"))

findFeatureByName(fs, nm) ==
  LET normalizedName == ToLowerCase(nm)
      IsExact(f) == LowerProp(f, "NAME") = Str(normalizedName)
      IsUsMatch(f) ==
        /\ Includes(LowerProp(f, "NAME").v, normalizedName)
        /\ IsUSCountry(LowerProp(f, "SOV0NAME"))
      IsAnyMatch(f) == Includes(LowerProp(f, "NAME").v, normalizedName)
      Holds2(f) == ~NameMissing(f) /\ IsUsSanFranciscoLike(f)
      Holds4(f) == ~NameMissing(f) /\ IsUsMatch(f)
      Holds5(f) == ~NameMissing(f) /\ IsAnyMatch(f)
      special == Includes(normalizedName, "san francisco")
      usSanFrancisco == Find(fs, IsUsSanFrancisco, Never)
      usMatchSF == Find(fs, Holds2, NameMissing)
      exactMatch == Find(fs, IsExact, Never)
      usMatch == Find(fs, Holds4, NameMissing)
      anyMatch == Find(fs, Holds5, NameMissing)
      general ==
        IF exactMatch.value # Undefined THEN exactMatch
        ELSE IF ~usMatch.ok THEN usMatch
        ELSE IF usMatch.value # Undefined THEN usMatch
        ELSE IF ~anyMatch.ok THEN anyMatch
        ELSE IF anyMatch.value # Undefined THEN anyMatch
        ELSE Return(Null)
  IN  IF special
      THEN IF usSanFrancisco.value # Undefined THEN usSanFrancisco
           ELSE IF ~usMatchSF.ok THEN usMatchSF
           ELSE IF usMatchSF.value # Undefined THEN usMatchSF
           ELSE general
      ELSE general

----------------------------------------------------------------------------
(* Features and geometry.                                                  *)
(* A geometry is abstracted to its extent [lo, hi] along one axis, in      *)
(* hundredths of a meter, and its area in square meters; a Point has       *)
(* lo = hi and area 0.  NoGeometry is a null geometry, BadGeometry a        *)
(* malformed one, on which the geometry library throws.                     *)

NoGeometry == [kind |-> "null"]
BadGeometry == [kind |-> "bad"]
Geom(lo, hi, area) == [kind |-> "geom", lo |-> lo, hi |-> hi, area |-> area]
IsPoint(g) == g.kind = "geom" /\ g.lo = g.hi
HasGeometry(f) == f.geometry # NoGeometry

\* A GeoJSON Feature as a JavaScript value
FeatureValue(f) == [t |-> "feature", v |-> f]
IsFeature(x) == x.t = "feature"

\* JavaScript numbers: a number or NaN
NaN == [t |-> "NaN"]
IsNumber(x) == x.t = "number"
IsDigits(s) == Len(s) > 0 /\ \A i \in 1..Len(s) : IsDigit(CharAt(s, i))
\* ToNumber of the values the model holds
ToNumber(x) ==
  CASE x.t = "number" -> x
    [] x.t = "null" -> Num(0)
    [] x.t = "string" /\ IsDigits(x.v) -> Num(ParseInt(x.v))
    [] x.t = "string" /\ x.v = "" -> Num(0)
    [] OTHER -> NaN

\* 1 mile = 1609.34 m, in hundredths of a meter
CentimetersPerMile == 160934
\* x * 1609.34 (units === 'miles') or x taken as meters, in hundredths of a meter
ToMeters(distance, units) ==
  LET n == ToNumber(distance) IN
    IF n = NaN THEN NaN
    ELSE IF units = Str("miles") THEN Num(n.v * CentimetersPerMile)
    ELSE Num(n.v * 100)

\* const { units = 'miles' } = parameters: the default replaces undefined only
Default(x, d) == IF x = Undefined THEN d ELSE x

----------------------------------------------------------------------------
(* The geometry library (@turf/turf), as the processor uses it *)

\* turf.buffer(feature, radius, {units: 'meters'}): throws on a malformed
\* geometry, returns undefined when no polygon results
TurfBuffer(f, radius) ==
  IF f.geometry = BadGeometry THEN Throw("turf.buffer: invalid geometry")
  ELSE IF radius = NaN \/ f.geometry.lo - radius.v > f.geometry.hi + radius.v
    THEN Return(Undefined)
  ELSE Return(Geom(f.geometry.lo - radius.v, f.geometry.hi + radius.v,
                   f.geometry.area))

\* turf.distance(from, to) * 1000: defined between Point features only
TurfDistanceM(f, target) ==
  IF ~IsFeature(target) \/ ~IsPoint(f.geometry) THEN Throw("coord must be GeoJSON Point")
  ELSE IF ~IsPoint(target.v.geometry) THEN Throw("coord must be GeoJSON Point")
  ELSE Return(IF f.geometry.lo >= target.v.geometry.lo
              THEN f.geometry.lo - target.v.geometry.lo
              ELSE target.v.geometry.lo - f.geometry.lo)

\* a target the boolean predicates accept
ValidTarget(f, target) ==
  /\ f.geometry # BadGeometry
  /\ IsFeature(target)
  /\ target.v.geometry.kind = "geom"

\* turf.booleanTouches: the boundaries meet and the interiors do not overlap
TurfBooleanTouches(f, target) ==
  \/ f.geometry.hi = target.v.geometry.lo
  \/ target.v.geometry.hi = f.geometry.lo

\* turf.booleanIntersects: the geometries share a point
TurfBooleanIntersects(f, target) ==
  /\ f.geometry.lo <= target.v.geometry.hi
  /\ target.v.geometry.lo <= f.geometry.hi

\* turf.union of two features
TurfUnion(a, b) ==
  [properties |-> a.properties,
   geometry |-> Geom(IF a.geometry.lo <= b.geometry.lo THEN a.geometry.lo ELSE b.geometry.lo,
                     IF a.geometry.hi >= b.geometry.hi THEN a.geometry.hi ELSE b.geometry.hi,
                     a.geometry.area + b.geometry.area)]

----------------------------------------------------------------------------
(* TurfSpatialProcessor *)

\* { ...feature.properties, ...derived }: the derived keys override
Spread(props, derived) == derived @@ props

Metadata(opName) == [operation |-> opName, processingTime |-> 0, engine |-> "turf"]

\* Object identity of a Result's geometry.  geometryOf is the index, in the
\* input list, of the feature whose geometry object the Result holds
\* (geometry: feature.geometry), or NewObject for a geometry the library built.
NewObject == 0
Param(op, key) == Get(op.parameters.v, key)
DestructureError == Throw("TypeError: Cannot destructure property of undefined")

RECURSIVE BufferFrom(_, _, _, _)
BufferFrom(op, data, i, results) ==
  IF i > Len(data) THEN Return(results)
  ELSE LET feature == data[i]
           distance == Param(op, "distance")
           units == Default(Param(op, "units"), Str("miles"))
           bufferDistance == ToMeters(distance, units)
           buffered == TurfBuffer(feature, bufferDistance)
       IN  IF ~HasGeometry(feature) THEN BufferFrom(op, data, i + 1, results)
           ELSE IF ~buffered.ok THEN buffered
           ELSE IF buffered.value = Undefined THEN BufferFrom(op, data, i + 1, results)
           ELSE BufferFrom(op, data, i + 1, Append(results,
                  [geometry |-> buffered.value, geometryOf |-> NewObject,
                   properties |-> Spread(feature.properties,
                     [buffer_distance |-> distance, buffer_units |-> units,
                      original_type |-> IF Truthy(Get(feature.properties, "type"))
                                        THEN Get(feature.properties, "type")
                                        ELSE Str("unknown")]),
                   metadata |-> Metadata("BUFFER")]))

processBuffer(op, data) ==
  IF op.parameters.t # "object" THEN DestructureError ELSE BufferFrom(op, data, 1, <<>>)

RECURSIVE WithinFrom(_, _, _, _)
WithinFrom(op, data, i, results) ==
  IF i > Len(data) THEN Return(results)
  ELSE LET feature == data[i]
           targetGeometry == Param(op, "targetGeometry")
           units == Default(Param(op, "units"), Str("miles"))
           searchDistance == ToMeters(Param(op, "distance"), units)
           distanceToTargetM == TurfDistanceM(feature, targetGeometry)
       IN  IF ~(HasGeometry(feature) /\ Truthy(targetGeometry))
             THEN WithinFrom(op, data, i + 1, results)
           ELSE IF ~distanceToTargetM.ok      \* caught: the feature is skipped
             THEN WithinFrom(op, data, i + 1, results)
           ELSE IF searchDistance # NaN /\ distanceToTargetM.value <= searchDistance.v
             THEN WithinFrom(op, data, i + 1, Append(results,
                  [geometry |-> feature.geometry, geometryOf |-> i,
                   properties |-> Spread(feature.properties,
                     [distance_to_target |-> Num(distanceToTargetM.value),
                      within_distance |-> searchDistance]),
                   metadata |-> Metadata("WITHIN")]))
           ELSE WithinFrom(op, data, i + 1, results)

processWithin(op, data) ==
  IF op.parameters.t # "object" THEN DestructureError ELSE WithinFrom(op, data, 1, <<>>)

\* processTouches and processIntersects: the same loop around one predicate.
\* lenient: whether the library's predicate answers false, instead of throwing,
\* for input that is no GeoJSON geometry.
RECURSIVE PredicateFrom(_, _, _, _, _, _)
PredicateFrom(op, data, i, results, opName, lenient) ==
  IF i > Len(data) THEN Return(results)
  ELSE LET feature == data[i]
           targetGeometry == Param(op, "targetGeometry")
           next == PredicateFrom(op, data, i + 1, results, opName, lenient)
       IN  IF ~(HasGeometry(feature) /\ Truthy(targetGeometry)) THEN next
           ELSE IF ~ValidTarget(feature, targetGeometry)
             THEN IF lenient THEN next ELSE Throw("turf: geometry not supported")
           ELSE IF opName = "TOUCHES" /\ TurfBooleanTouches(feature, targetGeometry)
             THEN PredicateFrom(op, data, i + 1, Append(results,
                  [geometry |-> feature.geometry, geometryOf |-> i,
                   properties |-> Spread(feature.properties, [touches_target |-> TRUE]),
                   metadata |-> Metadata("TOUCHES")]), opName, lenient)
           ELSE IF opName = "INTERSECTS" /\ TurfBooleanIntersects(feature, targetGeometry)
             THEN PredicateFrom(op, data, i + 1, Append(results,
                  [geometry |-> feature.geometry, geometryOf |-> i,
                   properties |-> Spread(feature.properties, [intersects_target |-> TRUE]),
                   metadata |-> Metadata("INTERSECTS")]), opName, lenient)
           ELSE next

processTouches(op, data, lenient) ==
  IF op.parameters.t # "object" THEN DestructureError
  ELSE PredicateFrom(op, data, 1, <<>>, "TOUCHES", lenient)

processIntersects(op, data, lenient) ==
  IF op.parameters.t # "object" THEN DestructureError
  ELSE PredicateFrom(op, data, 1, <<>>, "INTERSECTS", lenient)

\* 1 square mile = 2589988.110336 square meters: whole part and millionths
SquareMetersPerSquareMile == 2589988
SquareMileMillionths == 110336
\* area / 2589988.110336 >= minArea, for a whole area and a whole minArea >= 0
AreaAtLeast(area, minArea) ==
  area >= minArea * SquareMetersPerSquareMile
            + ((minArea * SquareMileMillionths + 999999) \div 1000000)

RECURSIVE AreaFrom(_, _, _, _)
AreaFrom(op, data, i, results) ==
  IF i > Len(data) THEN Return(results)
  ELSE LET feature == data[i]
           minArea == ToNumber(Param(op, "minArea"))
       IN  IF ~HasGeometry(feature) THEN AreaFrom(op, data, i + 1, results)
           ELSE IF feature.geometry = BadGeometry THEN Throw("turf.area: invalid geometry")
           ELSE IF minArea # NaN /\ AreaAtLeast(feature.geometry.area, minArea.v)
             THEN AreaFrom(op, data, i + 1, Append(results,
                  [geometry |-> feature.geometry, geometryOf |-> i,
                   properties |-> Spread(feature.properties,
                     [area_sq_miles |-> <<feature.geometry.area, "/ 2589988.110336">>,
                      area_sq_meters |-> Num(feature.geometry.area)]),
                   metadata |-> Metadata("AREA_FILTER")]))
           ELSE AreaFrom(op, data, i + 1, results)

processAreaFilter(op, data) ==
  IF op.parameters.t # "object" THEN DestructureError ELSE AreaFrom(op, data, 1, <<>>)

RECURSIVE UnionFrom(_, _, _)
UnionFrom(data, i, unioned) ==
  IF i > Len(data) THEN Return(unioned)
  ELSE IF unioned.geometry.kind # "geom" \/ data[i].geometry.kind # "geom"
    THEN Throw("turf.union: invalid geometry")
  ELSE UnionFrom(data, i + 1, TurfUnion(unioned, data[i]))

\* the guard off by one: a single feature passes
processUnion_OneSuffices(op, data) ==
  IF Len(data) < 1 THEN Throw("Union operation requires at least 2 geometries")
  ELSE LET unioned == UnionFrom(data, 2, data[1]) IN
    IF ~unioned.ok THEN unioned
    ELSE Return(<<[geometry |-> unioned.value.geometry, geometryOf |-> NewObject,
                   properties |-> [operation |-> "UNION", feature_count |-> Len(data)],
                   metadata |-> Metadata("UNION")]>>)

processUnion(op, data) ==
  IF Len(data) < 2 THEN Throw("Union operation requires at least 2 geometries")
  ELSE LET unioned == UnionFrom(data, 2, data[1]) IN
    IF ~unioned.ok THEN unioned
    ELSE Return(<<[geometry |-> unioned.value.geometry, geometryOf |-> NewObject,
                   properties |-> [operation |-> "UNION", feature_count |-> Len(data)],
                   metadata |-> Metadata("UNION")]>>)

\* the loop over the subtractors breaks at once: the base passes through
processDifference(op, data) ==
  IF Len(data) < 2 THEN Throw("Difference operation requires at least 2 geometries")
  ELSE LET result == data[1] IN
    Return(<<[geometry |-> result.geometry, geometryOf |-> 1,
              properties |-> [operation |-> "DIFFERENCE", original_count |-> Len(data)],
              metadata |-> Metadata("DIFFERENCE")]>>)

OperationTypes ==
  <<"BUFFER", "WITHIN", "TOUCHES", "INTERSECTS", "AREA_FILTER", "UNION", "DIFFERENCE">>
IsOperationType(type) == \E i \in 1..Len(OperationTypes) : type = Str(OperationTypes[i])

processOperation(op, data, lenient) ==
  CASE op.type = Str("BUFFER") -> processBuffer(op, data)
    [] op.type = Str("WITHIN") -> processWithin(op, data)
    [] op.type = Str("TOUCHES") -> processTouches(op, data, lenient)
    [] op.type = Str("INTERSECTS") -> processIntersects(op, data, lenient)
    [] op.type = Str("AREA_FILTER") -> processAreaFilter(op, data)
    [] op.type = Str("UNION") -> processUnion(op, data)
    [] op.type = Str("DIFFERENCE") -> processDifference(op, data)
    [] OTHER -> Throw("Unsupported operation")

validateOperation(op) == IsOperationType(op.type)

\* PostGISpatialProcessor: a placeholder that validates everything and
\* processes nothing
postgisProcessOperation(op, data) == Throw("PostGIS spatial processor not yet implemented")
postgisValidateOperation(op) == TRUE

----------------------------------------------------------------------------
(* The layer store: GET /api/geojson/[layer] and SpatialUtils.loadGeoJSONData *)

LAYER_MAP == {"states", "coastline", "cities", "rivers", "lakes"}
AVAILABLE_LAYERS == <<"states", "coastline", "cities", "rivers", "lakes">>

\* GET /api/geojson/[layer]; readable: whether the file read succeeds
GeoJSONGet(files, layer, readable) ==
  IF layer \notin LAYER_MAP THEN [status |-> 404, error |-> "Layer not found"]
  ELSE IF ~readable THEN [status |-> 500, error |-> "Failed to load data"]
  ELSE [status |-> 200, features |-> files[layer]]

\* loadGeoJSONData: every failure is caught and answered with an empty list
loadGeoJSONData(files, layerName, readable) ==
  LET res == GeoJSONGet(files, layerName, readable) IN
    IF res.status # 200 THEN <<>> ELSE res.features

\* the name a layers element has in the URL
LayerName(x) == IF IsString(x) THEN x.v ELSE "undefined"

\* (await Promise.all(layers.map(load))).flat(); unreadable: the layers whose
\* file read fails
RECURSIVE LoadAll(_, _, _, _)
LoadAll(files, layers, unreadable, i) ==
  IF i > Len(layers) THEN <<>>
  ELSE loadGeoJSONData(files, LayerName(layers[i]), LayerName(layers[i]) \notin unreadable)
         \o LoadAll(files, layers, unreadable, i + 1)

RECURSIVE FetchEntries(_, _, _, _)
FetchEntries(files, layers, unreadable, i) ==
  IF i > Len(layers) THEN <<>>
  ELSE <<[layer |-> LayerName(layers[i]),
          status |-> GeoJSONGet(files, LayerName(layers[i]),
                                LayerName(layers[i]) \notin unreadable).status]>>
         \o FetchEntries(files, layers, unreadable, i + 1)

----------------------------------------------------------------------------
(* SpatialAIEngine.interpretQuery *)

\* What the call of the language-model service can end with: no API key (no
\* call is made), a rejected call (an API error or the client's timeout), a
\* completion without content, content that is no JSON, or content that
\* parses to a value.
interpretQuery(outcome) ==
  CASE outcome.kind = "no_api_key" -> Throw("Failed to interpret query as spatial operation")
    [] outcome.kind = "rejected" -> Throw("Failed to interpret query as spatial operation")
    [] outcome.kind = "no_content" -> Throw("Failed to interpret query as spatial operation")
    [] outcome.kind = "unparseable" -> Throw("Failed to interpret query as spatial operation")
    [] outcome.kind = "parsed" -> Return(outcome.value)

----------------------------------------------------------------------------
(* Responses *)

NoResponse == [status |-> 0]
ErrorResponse(status, error) == [status |-> status, error |-> error]
InternalError(error, details) == [status |-> 500, error |-> error, details |-> details]

----------------------------------------------------------------------------
(* POST /api/query *)

Op(type, parameters, layers) == [type |-> type, parameters |-> parameters, layers |-> layers]

\* aiResult.operation: a property read on null, a string or a number is undefined
PropertyOf(x, key) == IF x.t = "object" THEN Get(x.v, key) ELSE Undefined

SuccessQuery(ai, op, results) ==
  [status |-> 200, success |-> TRUE, method |-> "ai", operation |-> op.type,
   explanation |-> IF Truthy(PropertyOf(ai, "explanation"))
                   THEN PropertyOf(ai, "explanation") ELSE Str(""),
   confidence |-> IF Truthy(PropertyOf(ai, "confidence"))
                  THEN PropertyOf(ai, "confidence") ELSE Num(1),
   layers |-> op.layers, parameters |-> op.parameters, results |-> results]

\* the catch of the handler
QueryCatch(message) == InternalError("Internal server error", message)

\* lines 9-19: the query is checked and the oracle is asked, for every query
QueryReceive ==
  /\ pc = "q_start"
  /\ IF query.t = "invalid_json"
     THEN /\ response' = QueryCatch("SyntaxError: Unexpected token in JSON")
          /\ pc' = "done"
          /\ UNCHANGED oracleCalls
     ELSE IF ~Truthy(query) \/ ~IsString(query)
     THEN /\ response' = ErrorResponse(400, "Query is required and must be a string")
          /\ pc' = "done"
          /\ UNCHANGED oracleCalls
     ELSE /\ oracleCalls' = oracleCalls + 1
          /\ pc' = "q_oracle"
          /\ UNCHANGED response
  /\ UNCHANGED <<now, tempFiles, requests, engineOut, query, template, params, tplOp, citiesData, cityName, cityFeature,
                 store, body, oracleEnd, aiResult, spatialOperation, flatData, fetchLog, engineLog>>

\* lines 89-93: spatialOperation.layers.map(...) throws unless layers is an array
StartLoad(op) ==
  IF op.layers.t = "array"
  THEN [pc |-> "q_load", response |-> NoResponse]
  ELSE [pc |-> "done",
        response |-> QueryCatch("TypeError: Cannot read properties of undefined (reading 'map')")]

\* lines 52-57: the place name of a WITHIN operation
CityNameOf(op) ==
  IF IsString(Param(op, "targetGeometry")) THEN Param(op, "targetGeometry")
  ELSE IF IsString(Param(op, "location")) THEN Param(op, "location")
  ELSE Undefined

\* line 20: !aiResult || !aiResult.operation
NotInterpreted_LowConfidence(v) ==
  ~Truthy(v) \/ ~Truthy(PropertyOf(v, "operation")) \/ ~Truthy(PropertyOf(v, "confidence"))

NotInterpreted(v) == ~Truthy(v) \/ ~Truthy(PropertyOf(v, "operation"))

\* lines 20-58: what the handler makes of the outcome ai of interpretQuery:
\* where it goes on, its response, its operation and the place name
Interpreted(ai) ==
  LET operation == PropertyOf(ai.value, "operation")
      type == IF PropertyOf(operation, "type") = Str("NEAR") THEN Str("WITHIN")
              ELSE PropertyOf(operation, "type")
      op == Op(type, PropertyOf(operation, "parameters"), PropertyOf(operation, "layers"))
      ended(r) == [pc |-> "done", response |-> r,
                   spatialOperation |-> spatialOperation, cityName |-> cityName]
  IN
    IF ~ai.ok THEN ended(QueryCatch(ai.error))
    ELSE IF NotInterpreted(ai.value)
      THEN ended(ErrorResponse(400, "AI could not interpret the query."))
    ELSE IF ~IsOperationType(type)
      THEN ended([status |-> 400, error |-> "Invalid operation type", type |-> type])
    ELSE IF type = Str("WITHIN") /\ op.parameters.t # "object"
      THEN [pc |-> "done",
            response |-> QueryCatch(
              "TypeError: Cannot read properties of undefined (reading 'targetGeometry')"),
            spatialOperation |-> op, cityName |-> cityName]
    ELSE IF type = Str("WITHIN") /\ Truthy(CityNameOf(op))
      THEN [pc |-> "q_cities", response |-> response,
            spatialOperation |-> op, cityName |-> CityNameOf(op)]
    ELSE [pc |-> StartLoad(op).pc, response |-> StartLoad(op).response,
          spatialOperation |-> op,
          cityName |-> IF type = Str("WITHIN") THEN CityNameOf(op) ELSE Undefined]

\* lines 19-58: the oracle's answer arrives and is turned into an operation
OracleSettle(outcome) ==
  /\ pc = "q_oracle"
  /\ LET ai == interpretQuery(outcome)
         next == Interpreted(ai)
     IN
       /\ aiResult' = ai
       /\ oracleEnd' = outcome.kind
       /\ pc' = next.pc
       /\ response' = next.response
       /\ spatialOperation' = next.spatialOperation
       /\ cityName' = next.cityName
  /\ UNCHANGED <<now, tempFiles, requests, engineOut, query, template, params, tplOp, citiesData, cityFeature,
                 store, body, flatData, oracleCalls, fetchLog, engineLog>>

\* lines 63-72: the debug listing reads geometry.coordinates of the first five
\* features whose name or NAME contains 'san francisco'
ListedForDebug(f) ==
  \/ (LowerProp(f, "name") # Undefined /\ Includes(LowerProp(f, "name").v, "san francisco"))
  \/ (LowerProp(f, "NAME") # Undefined /\ Includes(LowerProp(f, "NAME").v, "san francisco"))
DebugListingThrows(fs) ==
  \E i \in 1..Len(fs) :
    /\ ListedForDebug(fs[i]) /\ ~HasGeometry(fs[i])
    /\ Cardinality({j \in 1..(i - 1) : ListedForDebug(fs[j])}) < 5

\* lines 60-87: the cities are loaded and the place name is resolved
CitiesLoaded(readable) ==
  /\ pc = "q_cities"
  /\ LET cities == loadGeoJSONData(store, "cities", readable)
         found == findFeatureByName(cities, cityName.v)
         resolved == [spatialOperation EXCEPT !.parameters =
                       Obj([targetGeometry |-> FeatureValue(found.value.feature)]
                           @@ spatialOperation.parameters.v)]
     IN
       /\ citiesData' = cities
       /\ fetchLog' = Append(fetchLog,
            [layer |-> "cities", status |-> GeoJSONGet(store, "cities", readable).status])
       /\ IF DebugListingThrows(cities)
            THEN /\ response' = QueryCatch(
                       "TypeError: Cannot read properties of null (reading 'coordinates')")
                 /\ pc' = "done"
                 /\ UNCHANGED <<cityFeature, spatialOperation>>
          ELSE IF ~found.ok
            THEN /\ cityFeature' = found
                 /\ response' = QueryCatch(found.error)
                 /\ pc' = "done"
                 /\ UNCHANGED spatialOperation
          ELSE IF found.value = Null
            THEN /\ cityFeature' = found
                 /\ response' = [status |-> 400, error |-> "Could not find city",
                                  city |-> cityName.v]
                 /\ pc' = "done"
                 /\ UNCHANGED spatialOperation
          ELSE IF ~HasGeometry(found.value.feature)
            THEN /\ cityFeature' = found
                 /\ response' = QueryCatch(
                       "TypeError: Cannot read properties of null (reading 'coordinates')")
                 /\ pc' = "done"
                 /\ UNCHANGED spatialOperation
          ELSE /\ cityFeature' = found
               /\ spatialOperation' = resolved
               /\ pc' = StartLoad(resolved).pc
               /\ response' = StartLoad(resolved).response
  /\ UNCHANGED <<now, tempFiles, requests, engineOut, query, template, params, tplOp, cityName, store, body, oracleEnd, aiResult,
                 flatData, oracleCalls, engineLog>>

\* the layer names of an operation that have a file
KnownLayers(op) ==
  {LayerName(op.layers.v[i]) : i \in 1..Len(op.layers.v)} \cap LAYER_MAP

\* lines 90-93: every layer of the operation is loaded
LayersLoaded(unreadable) ==
  /\ pc = "q_load"
  /\ unreadable \subseteq KnownLayers(spatialOperation)
  /\ flatData' = LoadAll(store, spatialOperation.layers.v, unreadable, 1)
  /\ fetchLog' = fetchLog \o FetchEntries(store, spatialOperation.layers.v, unreadable, 1)
  /\ pc' = "q_engine"
  /\ UNCHANGED <<now, tempFiles, requests, engineOut, query, template, params, tplOp, citiesData, cityName, cityFeature,
                 store, body, oracleEnd, aiResult, spatialOperation, response, oracleCalls, engineLog>>

\* lines 98-120: the processor runs and the response is built
Execute(lenient) ==
  /\ pc = "q_engine"
  /\ engineLog' = Append(engineLog, spatialOperation)
  /\ LET results == processOperation(spatialOperation, flatData, lenient) IN
       /\ engineOut' = results
       /\ response' = IF results.ok
                      THEN SuccessQuery(aiResult.value, spatialOperation, results.value)
                      ELSE QueryCatch(results.error)
  /\ pc' = "done"
  /\ UNCHANGED <<now, tempFiles, requests, query, template, params, tplOp, citiesData, cityName, cityFeature,
                 store, body, oracleEnd, aiResult, spatialOperation, flatData, oracleCalls, fetchLog>>

----------------------------------------------------------------------------
(* POST /api/spatial *)

\* the operation of the body with its three fields read (a missing key reads
\* as undefined)
OperationOf(b) ==
  LET o == PropertyOf(b, "operation") IN
    Op(PropertyOf(o, "type"), PropertyOf(o, "parameters"), PropertyOf(o, "layers"))

\* const { engine = 'turf' } = body
EngineOf(b) == Default(PropertyOf(b, "engine"), Str("turf"))

\* the catch of the handler
SpatialCatch(message) == InternalError("Failed to process spatial operation", message)

\* lines 6-29: the body is checked, the processor created, the operation validated
SpatialReceive ==
  /\ pc = "s_start"
  /\ LET op == OperationOf(body)
         engine == EngineOf(body)
         valid == IF engine = Str("turf") THEN validateOperation(op)
                  ELSE postgisValidateOperation(op)
     IN
       IF body.t # "object"
         THEN /\ response' = SpatialCatch("TypeError: cannot destructure the request body")
              /\ pc' = "done"
              /\ UNCHANGED spatialOperation
       ELSE IF ~Truthy(PropertyOf(body, "operation")) \/ ~Truthy(op.type)
         THEN /\ response' = ErrorResponse(400, "Operation type is required")
              /\ pc' = "done"
              /\ UNCHANGED spatialOperation
       ELSE IF engine \notin {Str("turf"), Str("postgis")}
         THEN /\ response' = SpatialCatch("Unsupported spatial engine")
              /\ pc' = "done"
              /\ UNCHANGED spatialOperation
       ELSE IF ~valid
         THEN /\ response' = ErrorResponse(400, "Invalid operation for the specified engine")
              /\ pc' = "done"
              /\ UNCHANGED spatialOperation
       ELSE IF op.layers.t # "array"
         THEN /\ response' = SpatialCatch(
                    "TypeError: Cannot read properties of undefined (reading 'map')")
              /\ pc' = "done"
              /\ spatialOperation' = op
       ELSE /\ spatialOperation' = op
            /\ pc' = "s_load"
            /\ UNCHANGED response
  /\ UNCHANGED <<now, tempFiles, requests, engineOut, query, template, params, tplOp, citiesData, cityName, cityFeature,
                 store, body, oracleEnd, aiResult, flatData, oracleCalls, fetchLog, engineLog>>

\* lines 27-32: every layer of the operation is loaded
SpatialLayersLoaded(unreadable) ==
  /\ pc = "s_load"
  /\ unreadable \subseteq KnownLayers(spatialOperation)
  /\ flatData' = LoadAll(store, spatialOperation.layers.v, unreadable, 1)
  /\ fetchLog' = fetchLog \o FetchEntries(store, spatialOperation.layers.v, unreadable, 1)
  /\ pc' = "s_engine"
  /\ UNCHANGED <<now, tempFiles, requests, engineOut, query, template, params, tplOp, citiesData, cityName, cityFeature,
                 store, body, oracleEnd, aiResult, spatialOperation, response, oracleCalls, engineLog>>

\* results.map(result => ({type: 'Feature', geometry, properties}))
RECURSIVE ToFeatures(_)
ToFeatures(results) ==
  IF Len(results) = 0 THEN <<>>
  ELSE <<[type |-> "Feature", geometry |-> results[1].geometry,
          properties |-> results[1].properties]>> \o ToFeatures(Tail(results))

SuccessSpatial(engine, op, results) ==
  [status |-> 200, success |-> TRUE, engine |-> engine, operation |-> op.type,
   results |-> [type |-> "FeatureCollection", features |-> ToFeatures(results)],
   metadata |-> [featureCount |-> Len(results), processingEngine |-> engine]]

\* lines 35-68: the processor runs and the response is built
SpatialExecute(lenient) ==
  /\ pc = "s_engine"
  /\ engineLog' = Append(engineLog, spatialOperation)
  /\ LET results == IF EngineOf(body) = Str("turf")
                    THEN processOperation(spatialOperation, flatData, lenient)
                    ELSE postgisProcessOperation(spatialOperation, flatData)
     IN /\ engineOut' = results
        /\ response' = IF results.ok
                       THEN SuccessSpatial(EngineOf(body), spatialOperation, results.value)
                       ELSE SpatialCatch(results.error)
  /\ pc' = "done"
  /\ UNCHANGED <<now, tempFiles, requests, query, template, params, tplOp, citiesData, cityName, cityFeature,
                 store, body, oracleEnd, aiResult, spatialOperation, flatData, oracleCalls, fetchLog>>

----------------------------------------------------------------------------
(* The exported functions of the template matcher, applied in turn *)

FindTemplate ==
  /\ pc = "t_start"
  /\ template' = findMatchingTemplate(query.v)
  /\ pc' = IF template' = NoTemplate THEN "t_done" ELSE "t_matched"
  /\ UNCHANGED <<now, tempFiles, requests, engineOut, query, params, tplOp, citiesData, cityName, cityFeature, store, body,
                 oracleEnd, aiResult, spatialOperation, flatData, response, oracleCalls, fetchLog,
                 engineLog>>

ExtractParameters ==
  /\ pc = "t_matched"
  /\ params' = extractParameters(query.v)
  /\ pc' = "t_extracted"
  /\ UNCHANGED <<now, tempFiles, requests, engineOut, query, template, tplOp, citiesData, cityName, cityFeature, store, body,
                 oracleEnd, aiResult, spatialOperation, flatData, response, oracleCalls, fetchLog,
                 engineLog>>

CreateOperation ==
  /\ pc = "t_extracted"
  /\ tplOp' = createSpatialOperation(template, params)
  /\ pc' = "t_done"
  /\ UNCHANGED <<now, tempFiles, requests, engineOut, query, template, params, citiesData, cityName, cityFeature, store, body,
                 oracleEnd, aiResult, spatialOperation, flatData, response, oracleCalls, fetchLog,
                 engineLog>>

(* findFeatureByName applied to a collection and a name *)
Resolve ==
  /\ pc = "r_start"
  /\ cityFeature' = findFeatureByName(citiesData, cityName.v)
  /\ pc' = "r_done"
  /\ UNCHANGED <<now, tempFiles, requests, engineOut, query, template, params, tplOp, citiesData, cityName, store, body,
                 oracleEnd, aiResult, spatialOperation, flatData, response, oracleCalls, fetchLog,
                 engineLog>>

(* TurfSpatialProcessor.processOperation applied to an operation and a list *)
(* of features                                                              *)
Process(lenient) ==
  /\ pc = "e_start"
  /\ engineOut' = processOperation(spatialOperation, flatData, lenient)
  /\ pc' = "e_done"
  /\ UNCHANGED <<now, tempFiles, requests, query, template, params, tplOp, citiesData, cityName, cityFeature, store,
                 body, oracleEnd, aiResult, spatialOperation, flatData, response, oracleCalls,
                 fetchLog, engineLog>>

\* The caller writes g into the geometry object of the k-th Result it was
\* handed (result.geometry.coordinates = ...): the write is seen through every
\* reference to that object, the input feature's included.
ModifyResult(k, g) ==
  /\ pc = "e_done"
  /\ engineOut.ok
  /\ k \in 1..Len(engineOut.value)
  /\ LET owner == engineOut.value[k].geometryOf
         written(j) == j = k \/ (owner # NewObject /\ engineOut.value[j].geometryOf = owner)
     IN
       /\ engineOut' = [engineOut EXCEPT !.value =
            [j \in 1..Len(engineOut.value) |->
               IF written(j) THEN [engineOut.value[j] EXCEPT !.geometry = g]
               ELSE engineOut.value[j]]]
       /\ flatData' = IF owner = NewObject THEN flatData
                      ELSE [flatData EXCEPT ![owner].geometry = g]
  /\ pc' = "e_modified"
  /\ UNCHANGED <<now, tempFiles, requests, query, template, params, tplOp, citiesData, cityName, cityFeature, store,
                 body, oracleEnd, aiResult, spatialOperation, response, oracleCalls,
                 fetchLog, engineLog>>

----------------------------------------------------------------------------
(* Inputs *)

MaxWords == 3      \* words of a composed query
MaxFeatures == 3   \* features of a collection handed to the resolver
MaxCities == 2     \* features of the cities layer in the request handlers
MaxData == 3       \* features of a list handed to processOperation
MaxNow == 1        \* milliseconds the clock advances while the requests run

\* k miles along the axis, in hundredths of a meter
Miles(k) == k * CentimetersPerMile
PointAt(k) == Geom(Miles(k), Miles(k), 0)

\* a populated place: NAME and SOV0NAME are present unless undefined
Place(nm, country, geometry) ==
  [properties |->
     [k \in (IF nm = Undefined THEN {} ELSE {"NAME"})
          \cup (IF country = Undefined THEN {} ELSE {"SOV0NAME"}) |->
        IF k = "NAME" THEN nm ELSE country],
   geometry |-> geometry]

\* the examples the query endpoint advertises (query/route.ts, GET)
ExampleQueries ==
  {"coastline within 15 miles of California",
   "cities within 50 miles of San Francisco",
   "states that border Texas",
   "rivers that flow through Colorado",
   "lakes larger than 100 square miles"}

QueryWords ==
  {"States", "border", "coastline", "cities", "within", "miles", "rivers",
   "through", "lakes", "larger than", "intersect", "and"}

RECURSIVE JoinWords(_)
JoinWords(ws) ==
  IF Len(ws) = 0 THEN ""
  ELSE IF Len(ws) = 1 THEN ws[1]
  ELSE ws[1] \o " " \o JoinWords(Tail(ws))

ComposedQueries ==
  UNION {{JoinWords(ws) : ws \in [1..n -> QueryWords]} : n \in 1..MaxWords}

MatcherQueries ==
  ExampleQueries \cup ComposedQueries
    \cup {"intersection of rivers and lakes", "Cities near Paris", "hello world", "",
          "cities within 5 miles of Paris", "lakes larger than 7 square mile"}

ResolverPlaces ==
  {Place(Str("San Francisco"), Str("United States"), PointAt(0)),
   Place(Str("San Francisco"), Str("Argentina"), PointAt(0)),
   Place(Str("San Francisco"), Undefined, PointAt(0)),
   Place(Str("South San Francisco"), Str("USA"), PointAt(0)),
   Place(Str("Paris"), Str("France"), PointAt(0)),
   Place(Undefined, Str("United States"), PointAt(0))}

ResolverCollections ==
  UNION {[1..n -> ResolverPlaces] : n \in 0..MaxFeatures}

ResolverNames == {"San Francisco", "San Francisco Bay", "Paris", "francisco", "Atlantis"}

\* the layer files of the request handlers
SampleStates ==
  <<Place(Str("Texas"), Str("United States"), Geom(0, Miles(10), 700000000)),
    Place(Str("Oklahoma"), Str("United States"), Geom(Miles(10), Miles(20), 180000000))>>
SampleCoastline ==
  <<Place(Undefined, Undefined, Geom(Miles(0 - 30), 0, 0)),
    Place(Undefined, Undefined, NoGeometry)>>
SampleRivers == <<Place(Str("Colorado"), Undefined, Geom(Miles(5), Miles(15), 0))>>
SampleLakes ==
  <<Place(Str("Lake Travis"), Undefined, Geom(Miles(2), Miles(3), 1000000)),
    Place(Str("Lake Texoma"), Undefined, Geom(Miles(9), Miles(11), 300000000))>>

CityPlaces ==
  {Place(Str("San Francisco"), Str("United States"), PointAt(0)),
   Place(Str("San Francisco"), Str("Argentina"), PointAt(5000)),
   Place(Str("Oakland"), Str("United States"), PointAt(8)),
   Place(Undefined, Str("France"), PointAt(40))}

CityCollections == UNION {[1..n -> CityPlaces] : n \in 0..MaxCities}

Stores ==
  {[layer \in LAYER_MAP |->
      CASE layer = "states" -> SampleStates
        [] layer = "coastline" -> SampleCoastline
        [] layer = "cities" -> cities
        [] layer = "rivers" -> SampleRivers
        [] layer = "lakes" -> SampleLakes] : cities \in CityCollections}

\* request bodies of the query endpoint
InvalidJson == [t |-> "invalid_json"]
RouteQueries ==
  {Str("cities within 50 miles of San Francisco"), Str("states that border Texas"),
   Str("hello world"), Str(""), Undefined, Num(42), InvalidJson}

\* operations, as the oracle or a client of the operation endpoint writes them
WithinOf(target) ==
  Obj([type |-> Str("WITHIN"),
       parameters |-> Obj([distance |-> Num(50), units |-> Str("miles"),
                           targetGeometry |-> target]),
       layers |-> Arr(<<Str("cities")>>)])

WrittenOperations ==
  {Obj([type |-> Str("BUFFER"),
        parameters |-> Obj([distance |-> Num(50), units |-> Str("miles")]),
        layers |-> Arr(<<Str("coastline")>>)]),
   Obj([type |-> Str("BUFFER"),
        parameters |-> Obj([distance |-> Num(50), units |-> Str("miles")]),
        layers |-> Arr(<<Str("coastline"), Str("shoreline")>>)]),
   Obj([type |-> Str("BUFFER"),
        parameters |-> Obj([distance |-> Num(50), units |-> Str("miles")])]),
   WithinOf(Str("San Francisco")),
   WithinOf(Str("Oakland")),
   WithinOf(Str("Atlantis")),
   WithinOf(Str("")),
   WithinOf(FeatureValue(Place(Str("Oakland"), Str("United States"), PointAt(8)))),
   Obj([type |-> Str("NEAR"),
        parameters |-> Obj([distance |-> Num(50), location |-> Str("San Francisco")]),
        layers |-> Arr(<<Str("cities")>>)]),
   Obj([type |-> Str("WITHIN"),
        parameters |-> Obj([distance |-> Num(100), units |-> Str("miles")]),
        layers |-> Arr(<<Str("cities")>>)]),
   Obj([type |-> Str("WITHIN"), layers |-> Arr(<<Str("cities")>>)]),
   Obj([type |-> Str("TOUCHES"),
        parameters |-> Obj([targetGeometry |-> Str("Texas")]),
        layers |-> Arr(<<Str("states")>>)]),
   Obj([type |-> Str("TOUCHES"),
        parameters |-> Obj([targetGeometry |->
          FeatureValue(Place(Str("Texas"), Str("United States"),
                             Geom(0, Miles(10), 700000000)))]),
        layers |-> Arr(<<Str("states")>>)]),
   Obj([type |-> Str("INTERSECTS"),
        parameters |-> Obj([targetState |-> Str("Colorado")]),
        layers |-> Arr(<<Str("rivers"), Str("states")>>)]),
   Obj([type |-> Str("INTERSECTS"),
        parameters |-> Obj([targetGeometry |-> Str("Texas")]),
        layers |-> Arr(<<Str("rivers")>>)]),
   Obj([type |-> Str("AREA_FILTER"),
        parameters |-> Obj([minArea |-> Num(100), units |-> Str("square_miles")]),
        layers |-> Arr(<<Str("lakes")>>)]),
   Obj([type |-> Str("AREA_FILTER"), parameters |-> Obj(NoKeys),
        layers |-> Arr(<<Str("lakes")>>)]),
   Obj([type |-> Str("UNION"), parameters |-> Obj(NoKeys),
        layers |-> Arr(<<Str("states")>>)]),
   Obj([type |-> Str("DIFFERENCE"), parameters |-> Obj(NoKeys),
        layers |-> Arr(<<Str("states"), Str("lakes")>>)]),
   Obj([type |-> Str("UNION"), parameters |-> Obj(NoKeys), layers |-> Arr(<<>>)]),
   Obj([type |-> Str("CONTAINS"), parameters |-> Obj(NoKeys),
        layers |-> Arr(<<Str("states")>>)]),
   Obj([parameters |-> Obj(NoKeys), layers |-> Arr(<<Str("states")>>)])}

\* what the oracle's content parses to
OracleValues ==
  {Null, Str("I cannot help with that"), Obj([explanation |-> Str("no operation")])}
    \cup {Obj([operation |-> o, explanation |-> Str("because"), confidence |-> Num(0)]) :
             o \in WrittenOperations}
    \cup {Obj([operation |-> WithinOf(Str("Oakland"))])}
    \cup {Obj([operation |-> o, explanation |-> Str("because"), confidence |-> c]) :
             o \in {WithinOf(Str("Oakland")), WithinOf(Str("Atlantis"))},
             c \in {Num(1), Num(2), Str("high")}}

OracleOutcomes ==
  {[kind |-> k] : k \in {"no_api_key", "rejected", "no_content", "unparseable"}}
    \cup {[kind |-> "parsed", value |-> v] : v \in OracleValues}

\* the operation a template yields for a query, as a client would post it
TemplateOperation(tpl, q) ==
  LET op == createSpatialOperation(tpl, extractParameters(q)) IN
    Obj([type |-> op.type, parameters |-> op.parameters,
         layers |-> Arr([i \in 1..Len(op.layers.v) |-> Str(op.layers.v[i])])])

TemplateOperations ==
  {TemplateOperation(SPATIAL_QUERY_TEMPLATES[i], q) :
     i \in 1..Len(SPATIAL_QUERY_TEMPLATES), q \in ExampleQueries}

\* request bodies of the operation endpoint
SpatialBodies ==
  {InvalidJson, Null, Obj(NoKeys)}
    \cup {Obj([operation |-> o]) : o \in WrittenOperations \cup TemplateOperations}
    \cup {Obj([operation |-> o, engine |-> e]) :
             o \in {WithinOf(Str("Oakland")),
                     Obj([type |-> Str("CONTAINS"), parameters |-> Obj(NoKeys),
                          layers |-> Arr(<<Str("states")>>)])},
             e \in {Str("turf"), Str("postgis"), Str("spatialite")}}

\* features handed to the engine: two populated places a mile apart, three
\* areas (the second adjoins the first, the third covers both), a feature
\* with a malformed geometry and one without geometry
EngineTarget == Place(Str("Here"), Undefined, PointAt(0))
EngineArea == Place(Str("West"), Undefined, Geom(0, Miles(1), 3000000))
EngineFeatures ==
  {EngineTarget,
   Place(Str("There"), Undefined, PointAt(1)),
   EngineArea,
   Place(Str("East"), Undefined, Geom(Miles(1), Miles(2), 6000000)),
   Place(Str("Both"), Undefined, Geom(0, Miles(2), 9000000)),
   Place(Str("Broken"), Undefined, BadGeometry),
   Place(Str("Nowhere"), Undefined, NoGeometry)}

EngineData == UNION {[1..n -> EngineFeatures] : n \in 0..MaxData}

\* operations handed to the engine
EngineOperations ==
  {Op(Str("BUFFER"), Obj([distance |-> Num(1), units |-> Str("miles")]), Arr(<<>>)),
   Op(Str("WITHIN"), Obj([targetGeometry |-> FeatureValue(EngineTarget),
                          distance |-> Num(1), units |-> Str("miles")]), Arr(<<>>)),
   Op(Str("WITHIN"), Obj([targetGeometry |-> FeatureValue(EngineTarget),
                          distance |-> Num(1)]), Arr(<<>>)),
   Op(Str("WITHIN"), Obj([targetGeometry |-> FeatureValue(EngineTarget),
                          distance |-> Num(2), units |-> Str("kilometers")]), Arr(<<>>)),
   Op(Str("WITHIN"), Obj([targetGeometry |-> FeatureValue(EngineTarget),
                          distance |-> Num(0), units |-> Str("meters")]), Arr(<<>>)),
   Op(Str("TOUCHES"), Obj([targetGeometry |-> FeatureValue(EngineArea)]), Arr(<<>>)),
   Op(Str("INTERSECTS"), Obj([targetGeometry |-> FeatureValue(EngineArea)]), Arr(<<>>)),
   Op(Str("AREA_FILTER"), Obj([minArea |-> Num(1)]), Arr(<<>>)),
   Op(Str("AREA_FILTER"), Obj([minArea |-> Num(2), units |-> Str("square_miles")]),
      Arr(<<>>)),
   Op(Str("AREA_FILTER"), Obj([minArea |-> Num(4), units |-> Str("square_kilometers")]),
      Arr(<<>>)),
   Op(Str("UNION"), Obj(NoKeys), Arr(<<>>)),
   Op(Str("DIFFERENCE"), Obj(NoKeys), Arr(<<>>)),
   Op(Str("CONTAINS"), Obj(NoKeys), Arr(<<>>))}

\* what a caller may write into a geometry it was handed
WrittenGeometries == {PointAt(5)}

----------------------------------------------------------------------------
(* POST /api/geojson/[layer]: a submitted script is written to a temporary  *)
(* file, run by python3 and the file removed.  Every await of the handler   *)
(* is a point where another request's handler may run.                      *)

\* the requests handled concurrently
Requests == {1, 2}

\* what a temporary file, or the file position of a request, holds when there
\* is no file
NoFile == [t |-> "no file"]

\* path.join(tempDir, `gee_user_script_${Date.now()}.py`)
TempFileAt(time) == <<"gee_user_script_", time, ".py">>

\* the temporary directory before any script is written
NoTempFiles == [name \in {TempFileAt(time) : time \in 0..MaxNow} |-> NoFile]

\* the locals of each POST before it starts
NoRequests ==
  [r \in Requests |->
     [pc |-> "start", code |-> Undefined, tempFile |-> NoFile, executed |-> NoFile,
      result |-> NoFile, response |-> NoResponse]]

\* the `code` fields of the submitted bodies
SubmittedCodes ==
  {Str("print(1)"), Str("print(2)"), Str("import sys; sys.exit(3)"), Str(""), Undefined, Num(7)}

\* python3 <file>: stdout, stderr and exit code of the interpreter for the
\* content it read, or for a file it could not open
RunPython(content) ==
  CASE content = Str("print(1)") -> [stdout |-> "1\n", stderr |-> "", exitCode |-> 0]
    [] content = Str("print(2)") -> [stdout |-> "2\n", stderr |-> "", exitCode |-> 0]
    [] content = Str("import sys; sys.exit(3)") -> [stdout |-> "", stderr |-> "", exitCode |-> 3]
    [] content = NoFile ->
         [stdout |-> "", stderr |-> "python3: can't open file", exitCode |-> 2]

\* the clock advances
Tick ==
  /\ now < MaxNow
  /\ now' = now + 1
  /\ UNCHANGED <<tempFiles, requests, pc, engineOut, query, template, params, tplOp,
                 citiesData, cityName, cityFeature, store, body, oracleEnd, aiResult,
                 spatialOperation, flatData, response, oracleCalls, fetchLog, engineLog>>

\* lines 56-64: the body is read and checked, the file name is made from the
\* clock and fs.writeFile is called
ScriptReceive(r, code) ==
  /\ pc = "p_run"
  /\ requests[r].pc = "start"
  /\ requests' = [requests EXCEPT ![r] =
       IF ~Truthy(code) \/ ~IsString(code)
       THEN [@ EXCEPT !.code = code, !.pc = "done",
                      !.response = [status |-> 400, error |-> "No code provided"]]
       ELSE [@ EXCEPT !.code = code, !.pc = "writing", !.tempFile = TempFileAt(now)]]
  /\ UNCHANGED <<now, tempFiles, pc, engineOut, query, template, params, tplOp,
                 citiesData, cityName, cityFeature, store, body, oracleEnd, aiResult,
                 spatialOperation, flatData, response, oracleCalls, fetchLog, engineLog>>

\* lines 64, 67, 43: the file is written, whatever it held, and python3 is
\* spawned on its name
ScriptWrite(r) ==
  /\ pc = "p_run"
  /\ requests[r].pc = "writing"
  /\ tempFiles' = [tempFiles EXCEPT ![requests[r].tempFile] = requests[r].code]
  /\ requests' = [requests EXCEPT ![r].pc = "spawned"]
  /\ UNCHANGED <<now, pc, engineOut, query, template, params, tplOp,
                 citiesData, cityName, cityFeature, store, body, oracleEnd, aiResult,
                 spatialOperation, flatData, response, oracleCalls, fetchLog, engineLog>>

\* the interpreter opens the file of its argument and reads the script
PythonRead(r) ==
  /\ pc = "p_run"
  /\ requests[r].pc = "spawned"
  /\ requests' = [requests EXCEPT ![r].pc = "running",
                                  ![r].executed = tempFiles[requests[r].tempFile]]
  /\ UNCHANGED <<now, tempFiles, pc, engineOut, query, template, params, tplOp,
                 citiesData, cityName, cityFeature, store, body, oracleEnd, aiResult,
                 spatialOperation, flatData, response, oracleCalls, fetchLog, engineLog>>

\* lines 46-50: the process closes; its output and exit code resolve the promise
PythonClose(r) ==
  /\ pc = "p_run"
  /\ requests[r].pc = "running"
  /\ requests' = [requests EXCEPT ![r].pc = "closed",
                                  ![r].result = RunPython(requests[r].executed)]
  /\ UNCHANGED <<now, tempFiles, pc, engineOut, query, template, params, tplOp,
                 citiesData, cityName, cityFeature, store, body, oracleEnd, aiResult,
                 spatialOperation, flatData, response, oracleCalls, fetchLog, engineLog>>

\* lines 70-72: the file of that name is removed (a failure is ignored) and
\* the response is sent
ScriptUnlink(r) ==
  /\ pc = "p_run"
  /\ requests[r].pc = "closed"
  /\ tempFiles' = [tempFiles EXCEPT ![requests[r].tempFile] = NoFile]
  /\ requests' = [requests EXCEPT ![r].pc = "done",
       ![r].response = [status |-> 200, stdout |-> requests[r].result.stdout,
                        stderr |-> requests[r].result.stderr,
                        exitCode |-> requests[r].result.exitCode]]
  /\ UNCHANGED <<now, pc, engineOut, query, template, params, tplOp,
                 citiesData, cityName, cityFeature, store, body, oracleEnd, aiResult,
                 spatialOperation, flatData, response, oracleCalls, fetchLog, engineLog>>

----------------------------------------------------------------------------
(* Specifications *)

\* the query endpoint serving one request
InitQuery ==
  /\ pc = "q_start"
  /\ query \in RouteQueries
  /\ store \in Stores
  /\ template = NoTemplate
  /\ params = NoKeys
  /\ tplOp = Undefined
  /\ citiesData = <<>>
  /\ cityName = Undefined
  /\ cityFeature = NotCalled
  /\ body = Undefined
  /\ oracleEnd = "none"
  /\ aiResult = NotCalled
  /\ spatialOperation = Undefined
  /\ flatData = <<>>
  /\ response = NoResponse
  /\ oracleCalls = 0
  /\ fetchLog = <<>>
  /\ engineLog = <<>>
  /\ engineOut = NotCalled
  /\ now = 0
  /\ tempFiles = NoTempFiles
  /\ requests = NoRequests

NextQuery ==
  \/ QueryReceive
  \/ \E outcome \in OracleOutcomes : OracleSettle(outcome)
  \/ \E readable \in BOOLEAN : CitiesLoaded(readable)
  \/ \E unreadable \in SUBSET LAYER_MAP : LayersLoaded(unreadable)
  \/ \E lenient \in BOOLEAN : Execute(lenient)

SpecQuery == InitQuery /\ [][NextQuery]_vars

Spec == SpecQuery

\* the operation endpoint serving one request
InitSpatial ==
  /\ pc = "s_start"
  /\ body \in SpatialBodies
  /\ store \in Stores
  /\ query = Undefined
  /\ template = NoTemplate
  /\ params = NoKeys
  /\ tplOp = Undefined
  /\ citiesData = <<>>
  /\ cityName = Undefined
  /\ cityFeature = NotCalled
  /\ oracleEnd = "none"
  /\ aiResult = NotCalled
  /\ spatialOperation = Undefined
  /\ flatData = <<>>
  /\ response = NoResponse
  /\ oracleCalls = 0
  /\ fetchLog = <<>>
  /\ engineLog = <<>>
  /\ engineOut = NotCalled
  /\ now = 0
  /\ tempFiles = NoTempFiles
  /\ requests = NoRequests

NextSpatial ==
  \/ SpatialReceive
  \/ \E unreadable \in SUBSET LAYER_MAP : SpatialLayersLoaded(unreadable)
  \/ \E lenient \in BOOLEAN : SpatialExecute(lenient)

SpecSpatial == InitSpatial /\ [][NextSpatial]_vars

\* the template matcher applied to a query
InitTemplate ==
  /\ pc = "t_start"
  /\ query \in {Str(q) : q \in MatcherQueries}
  /\ template = NoTemplate
  /\ params = NoKeys
  /\ tplOp = Undefined
  /\ citiesData = <<>>
  /\ cityName = Undefined
  /\ cityFeature = NotCalled
  /\ store = [layer \in LAYER_MAP |-> <<>>]
  /\ body = Undefined
  /\ oracleEnd = "none"
  /\ aiResult = NotCalled
  /\ spatialOperation = Undefined
  /\ flatData = <<>>
  /\ response = NoResponse
  /\ oracleCalls = 0
  /\ fetchLog = <<>>
  /\ engineLog = <<>>
  /\ engineOut = NotCalled
  /\ now = 0
  /\ tempFiles = NoTempFiles
  /\ requests = NoRequests

NextTemplate == FindTemplate \/ ExtractParameters \/ CreateOperation

SpecTemplate == InitTemplate /\ [][NextTemplate]_vars

\* the entity resolver applied to a collection and a name
InitResolver ==
  /\ pc = "r_start"
  /\ citiesData \in ResolverCollections
  /\ cityName \in {Str(n) : n \in ResolverNames}
  /\ query = Undefined
  /\ template = NoTemplate
  /\ params = NoKeys
  /\ tplOp = Undefined
  /\ cityFeature = NotCalled
  /\ store = [layer \in LAYER_MAP |-> <<>>]
  /\ body = Undefined
  /\ oracleEnd = "none"
  /\ aiResult = NotCalled
  /\ spatialOperation = Undefined
  /\ flatData = <<>>
  /\ response = NoResponse
  /\ oracleCalls = 0
  /\ fetchLog = <<>>
  /\ engineLog = <<>>
  /\ engineOut = NotCalled
  /\ now = 0
  /\ tempFiles = NoTempFiles
  /\ requests = NoRequests

NextResolver == Resolve

SpecResolver == InitResolver /\ [][NextResolver]_vars

\* the engine applied to an operation and a feature list
InitEngine ==
  /\ pc = "e_start"
  /\ spatialOperation \in EngineOperations
  /\ flatData \in EngineData
  /\ query = Undefined
  /\ template = NoTemplate
  /\ params = NoKeys
  /\ tplOp = Undefined
  /\ citiesData = <<>>
  /\ cityName = Undefined
  /\ cityFeature = NotCalled
  /\ store = [layer \in LAYER_MAP |-> <<>>]
  /\ body = Undefined
  /\ oracleEnd = "none"
  /\ aiResult = NotCalled
  /\ response = NoResponse
  /\ oracleCalls = 0
  /\ fetchLog = <<>>
  /\ engineLog = <<>>
  /\ engineOut = NotCalled
  /\ now = 0
  /\ tempFiles = NoTempFiles
  /\ requests = NoRequests

NextEngine ==
  \/ \E lenient \in BOOLEAN : Process(lenient)
  \/ \E k \in 1..MaxData, g \in WrittenGeometries : ModifyResult(k, g)

SpecEngine == InitEngine /\ [][NextEngine]_vars

\* the script endpoint serving two requests at once
InitScript ==
  /\ pc = "p_run"
  /\ now = 0
  /\ tempFiles = NoTempFiles
  /\ requests = NoRequests
  /\ query = Undefined
  /\ template = NoTemplate
  /\ params = NoKeys
  /\ tplOp = Undefined
  /\ citiesData = <<>>
  /\ cityName = Undefined
  /\ cityFeature = NotCalled
  /\ store = [layer \in LAYER_MAP |-> <<>>]
  /\ body = Undefined
  /\ oracleEnd = "none"
  /\ aiResult = NotCalled
  /\ spatialOperation = Undefined
  /\ flatData = <<>>
  /\ response = NoResponse
  /\ oracleCalls = 0
  /\ fetchLog = <<>>
  /\ engineLog = <<>>
  /\ engineOut = NotCalled

NextScript ==
  \/ Tick
  \/ \E r \in Requests, code \in SubmittedCodes : ScriptReceive(r, code)
  \/ \E r \in Requests : ScriptWrite(r)
  \/ \E r \in Requests : PythonRead(r)
  \/ \E r \in Requests : PythonClose(r)
  \/ \E r \in Requests : ScriptUnlink(r)

SpecScript == InitScript /\ [][NextScript]_vars

----------------------------------------------------------------------------
(* Properties *)

\* the pattern of the template that belongs to the first keyword rule a
\* lower-cased query satisfies, in the priority order of the rules
ExpectedPattern(q) ==
  IF StatesBorderRule(q) THEN "states that border {state}"
  ELSE IF CoastlineRule(q) THEN "coastline within {distance} miles of {location}"
  ELSE IF CitiesRule(q) THEN "cities within {distance} miles of {location}"
  ELSE IF RiversRule(q) THEN "rivers that flow through {state}"
  ELSE IF LakesRule(q) THEN "lakes larger than {area} square miles"
  ELSE IF IntersectionRule(q) THEN "intersection of {layer1} and {layer2}"
  ELSE "null"

\* C1: findMatchingTemplate returns the template of the first keyword rule the
\* lower-cased query satisfies (state-border, coastline, cities, rivers, lakes,
\* intersection), and null iff no rule is satisfied.
C1_TemplateOfFirstRule ==
  pc # "t_start" => template.pattern = ExpectedPattern(ToLowerCase(query.v))

\* C2: the oracle is called only for a query for which the template matcher
\* finds no template.
C2_OracleOnlyWithoutTemplate ==
  oracleCalls > 0 => findMatchingTemplate(query.v) = NoTemplate

\* the parameters each operation kind requires (design section 4.1)
RequiredParameters(type) ==
  CASE type = Str("BUFFER") -> {"distance"}
    [] type = Str("WITHIN") -> {"targetGeometry", "distance"}
    [] type = Str("TOUCHES") -> {"targetGeometry"}
    [] type = Str("INTERSECTS") -> {"targetGeometry"}
    [] type = Str("AREA_FILTER") -> {"minArea"}
    [] OTHER -> {}
MissingRequired(op) ==
  \E k \in RequiredParameters(op.type) :
    op.parameters.t # "object" \/ Param(op, k) = Undefined

\* C3: an operation of an enumerated kind that lacks a required parameter, or
\* holds undefined for it, is rejected before any layer is fetched and before
\* the engine runs, and never yields a success response.
C3_MissingParametersRejected ==
  (/\ body.t = "object"
   /\ IsOperationType(OperationOf(body).type)
   /\ MissingRequired(OperationOf(body)))
    => (fetchLog = <<>> /\ engineLog = <<>> /\ response.status # 200)

IsNamed(f, nm) == Get(f.properties, "NAME") = Str(nm)
InUnitedStates(f) == Get(f.properties, "SOV0NAME") \in {Str("United States"), Str("USA")}

\* C4: for a collection that holds a United States feature named "San
\* Francisco", in any position and among any other features,
\* findFeatureByName(collection, "San Francisco") returns a feature named San
\* Francisco of the United States.
C4_SanFranciscoIsUS ==
  (/\ pc = "r_done"
   /\ cityName = Str("San Francisco")
   /\ \E i \in 1..Len(citiesData) :
        IsNamed(citiesData[i], "San Francisco") /\ InUnitedStates(citiesData[i]))
    => (/\ cityFeature.ok
        /\ cityFeature.value # Null
        /\ IsNamed(cityFeature.value.feature, "San Francisco")
        /\ InUnitedStates(cityFeature.value.feature))

\* a non-US San Francisco precedes the United States one that is returned
C4_Witness ==
  /\ pc = "r_done"
  /\ cityName = Str("San Francisco")
  /\ Len(citiesData) >= 2
  /\ IsNamed(citiesData[1], "San Francisco")
  /\ ~InUnitedStates(citiesData[1])
  /\ cityFeature.ok
  /\ cityFeature.value # Null
  /\ cityFeature.value.index > 1
  /\ InUnitedStates(cityFeature.value.feature)

\* the first feature of a collection, in order, that satisfies P
FirstWhere(fs, P(_)) ==
  IF \E i \in 1..Len(fs) : P(fs[i])
  THEN LET i == CHOOSE k \in 1..Len(fs) : P(fs[k]) /\ \A j \in 1..(k - 1) : ~P(fs[j])
       IN [index |-> i, feature |-> fs[i]]
  ELSE Undefined

\* the resolution order of the design (section 4.4): a feature without a name
\* matches nothing
ExpectedFeature(fs, nm) ==
  LET n == ToLowerCase(nm)
      Exact(f) == LowerProp(f, "NAME") = Str(n)
      Contains(f) == LowerProp(f, "NAME") # Undefined /\ Includes(LowerProp(f, "NAME").v, n)
      US(f) == IsUSCountry(LowerProp(f, "SOV0NAME"))
      UsExact(f) == Exact(f) /\ US(f)
      UsContains(f) == Contains(f) /\ US(f)
      special == Includes(n, "san francisco")
  IN  IF special /\ FirstWhere(fs, UsExact) # Undefined THEN FirstWhere(fs, UsExact)
      ELSE IF special /\ FirstWhere(fs, UsContains) # Undefined THEN FirstWhere(fs, UsContains)
      ELSE IF FirstWhere(fs, Exact) # Undefined THEN FirstWhere(fs, Exact)
      ELSE IF FirstWhere(fs, UsContains) # Undefined THEN FirstWhere(fs, UsContains)
      ELSE IF FirstWhere(fs, Contains) # Undefined THEN FirstWhere(fs, Contains)
      ELSE Null

\* C5: findFeatureByName returns, in strict priority, the first exact
\* case-insensitive match, else the first United States feature whose name
\* contains the query, else the first feature whose name contains the query,
\* else none; for a specially-handled name the two country-qualified steps
\* come first and select features whose name equals, respectively contains, the
\* query string itself.  Stated for collections whose features all have a
\* name, where the lookup cannot fail.
C5_ResolutionOrder ==
  (pc = "r_done" /\ \A i \in 1..Len(citiesData) : ~NameMissing(citiesData[i]))
    => cityFeature = Return(ExpectedFeature(citiesData, cityName.v))

\* the resolver was asked and did not come back with a feature
Unresolved == cityFeature # NotCalled /\ (~cityFeature.ok \/ cityFeature.value = Null)

\* C6: when the place name of a query cannot be resolved, the resolver reports
\* none rather than failing, the engine is never executed, and the request ends
\* with the explicit could-not-find error.
C6_UnresolvedIsEntityNotFound ==
  (pc = "done" /\ Unresolved)
    => (/\ cityFeature.ok
        /\ response.status = 400
        /\ response.error = "Could not find city"
        /\ engineLog = <<>>)

TargetKinds == {Str("WITHIN"), Str("TOUCHES"), Str("INTERSECTS")}
IsPlaceName(x) == IsString(x) /\ x.v # ""
NamesPlace(op) ==
  \E k \in {"targetGeometry", "targetState", "location"} : IsPlaceName(Param(op, k))

\* C7: every WITHIN, TOUCHES or INTERSECTS operation handed to the engine
\* carries a Feature, never a place-name string, as its target: a parameter
\* that names a place has been resolved before the engine executes.
C7_EngineTargetIsFeature ==
  \A i \in 1..Len(engineLog) :
    (engineLog[i].type \in TargetKinds /\ engineLog[i].parameters.t = "object")
      => (/\ ~IsPlaceName(Param(engineLog[i], "targetGeometry"))
          /\ NamesPlace(engineLog[i]) => IsFeature(Param(engineLog[i], "targetGeometry")))

FetchFailed == \E i \in 1..Len(fetchLog) : fetchLog[i].status # 200
DataUnavailable(r) ==
  r.status \in {404, 500} /\ r.error \in {"Layer not found", "Failed to load data"}

\* C8: when the fetch of a layer of the operation fails, the engine is not
\* executed and the request ends with a data-unavailable error.  Stated for
\* operations that carry the parameters their kind requires.
C8_FetchFailureAborts ==
  (FetchFailed /\ ~MissingRequired(OperationOf(body)))
    => (engineLog = <<>> /\ (pc = "done" => DataUnavailable(response)))

\* the explicit could-not-interpret answers of the query endpoint
IsUninterpretableQuery(r) ==
  r.status = 400 /\ r.error \in {"AI could not interpret the query.", "Invalid operation type"}

\* the oracle returned a structured response with an enumerated type (NEAR
\* counted as WITHIN)
OracleUsable ==
  /\ aiResult.ok
  /\ LET type == PropertyOf(PropertyOf(aiResult.value, "operation"), "type") IN
       IsOperationType(IF type = Str("NEAR") THEN Str("WITHIN") ELSE type)

\* C9: the engine executes only after a usable oracle response; every other
\* oracle outcome ends the request with a could-not-interpret error, no layer
\* fetched and no engine run.
C9_OnlyUsableOracleExecutes ==
  /\ engineLog # <<>> => OracleUsable
  /\ (pc = "done" /\ oracleEnd # "none" /\ ~OracleUsable)
       => (IsUninterpretableQuery(response) /\ fetchLog = <<>> /\ engineLog = <<>>)

\* C10: a request whose oracle call is given up (timeout or error) ends with a
\* could-not-interpret error.
C10_OracleTimeoutIsUninterpretable ==
  (pc = "done" /\ oracleEnd = "rejected") => IsUninterpretableQuery(response)

IsFold(op) == op.type \in {Str("UNION"), Str("DIFFERENCE")}
TooFew(op) ==
  IF op.type = Str("UNION") THEN Throw("Union operation requires at least 2 geometries")
  ELSE Throw("Difference operation requires at least 2 geometries")
\* a feature whose geometry is a well-formed area
IsArea(f) == f.geometry.kind = "geom" /\ ~IsPoint(f.geometry)

Overlap(a, b) == a.lo < b.hi /\ b.lo < a.hi

\* C12: DIFFERENCE over f1..fn (n >= 2, well-formed areas) returns a single
\* Result whose geometry is f1's with f2..fn subtracted: it covers nothing
\* that one of f2..fn covers.
C12_DifferenceSubtracts ==
  (/\ pc = "e_done"
   /\ spatialOperation.type = Str("DIFFERENCE")
   /\ Len(flatData) >= 2
   /\ \A i \in 1..Len(flatData) : IsArea(flatData[i]))
    => (/\ engineOut.ok
        /\ Len(engineOut.value) = 1
        /\ \A i \in 2..Len(flatData) :
             ~Overlap(engineOut.value[1].geometry, flatData[i].geometry))

\* the kind an error response carries
ErrorKind(r) == r.error
\* the kind the query handler answers a failure of the oracle with
OracleFailureKind == ErrorKind(QueryCatch(interpretQuery([kind |-> "rejected"]).error))
\* the request failed on its input: on its body, before the oracle was asked,
\* or on an operation whose parameters or layers are missing
FailedOnInput ==
  /\ pc = "done"
  /\ response.status # 200
  /\ \/ oracleEnd = "none"
     \/ /\ aiResult.ok
        /\ spatialOperation # Undefined
        /\ (spatialOperation.parameters.t # "object" \/ spatialOperation.layers.t # "array")

\* C13: error responses carry the kind of their cause, and the kinds of
\* different causes differ: a failure of the oracle is answered with
\* OracleFailureKind, so a request that fails on invalid input is answered with
\* another kind.
C13_ErrorKindsDistinct ==
  FailedOnInput => ErrorKind(response) # OracleFailureKind

PerFeatureKinds ==
  {Str("BUFFER"), Str("WITHIN"), Str("TOUCHES"), Str("INTERSECTS"), Str("AREA_FILTER")}
IsMalformed(f) == f.geometry = BadGeometry
\* the features of a list on which the geometry library does not fail
WellFormed(data) == SelectSeq(data, LAMBDA f : ~IsMalformed(f))

\* C14: for BUFFER, WITHIN, TOUCHES, INTERSECTS and AREA_FILTER a feature
\* whose geometric computation fails is skipped: the operation returns what it
\* returns for the list without such features, in the same order, and does
\* not fail.
C14_MalformedFeatureSkipped ==
  (pc = "e_done" /\ spatialOperation.type \in PerFeatureKinds)
    => LET expected == processOperation(spatialOperation, WellFormed(flatData), TRUE) IN
         /\ expected.ok
         /\ engineOut.ok
         /\ ToFeatures(engineOut.value) = ToFeatures(expected.value)

\* the request names an engine the endpoint accepts and an operation whose
\* type is none of the seven kinds
UnsupportedTypeRequested ==
  /\ body.t = "object"
  /\ Truthy(PropertyOf(body, "operation"))
  /\ EngineOf(body) \in {Str("turf"), Str("postgis")}
  /\ ~IsOperationType(OperationOf(body).type)

\* C15: for either engine, an operation whose type is none of the seven kinds
\* never yields a success response and is rejected before any layer is
\* fetched; the engine, if it is reached with such a type, fails with its
\* unsupported-operation error.
C15_UnsupportedTypeRejected ==
  UnsupportedTypeRequested
    => (/\ response.status # 200
        /\ fetchLog = <<>>
        /\ engineLog # <<>> => engineOut = Throw("Unsupported operation"))

\* a JavaScript object, and a response, without its confidence
WithoutConfidence(v) ==
  IF v.t = "object" THEN Obj([k \in DOMAIN v.v \ {"confidence"} |-> v.v[k]]) ELSE v
SansConfidence(r) == [k \in DOMAIN r \ {"confidence"} |-> r[k]]

\* C16: the oracle's confidence never gates execution.  What the handler makes
\* of the oracle's answer (go on or stop, the response, the operation, the
\* place name) is what it makes of the same answer without confidence; the
\* engine's outcome depends on the operation and the loaded features alone,
\* and the final response, its confidence field apart, is built from that
\* outcome.
C16_ConfidenceNeverGates ==
  [][/\ (pc = "q_oracle" /\ aiResult'.ok)
         => LET erased == Interpreted(Return(WithoutConfidence(aiResult'.value))) IN
              /\ pc' = erased.pc
              /\ response' = erased.response
              /\ spatialOperation' = erased.spatialOperation
              /\ cityName' = erased.cityName
     /\ pc = "q_engine"
         => /\ engineOut' \in {processOperation(spatialOperation, flatData, lenient) :
                                 lenient \in BOOLEAN}
            /\ IF engineOut'.ok
               THEN SansConfidence(response') =
                      SansConfidence(SuccessQuery(WithoutConfidence(aiResult.value),
                                                  spatialOperation, engineOut'.value))
               ELSE response' = QueryCatch(engineOut'.error)]_vars

\* an answer of the oracle with confidence 0 has been executed with success
C16_Witness ==
  /\ pc = "done"
  /\ aiResult.ok
  /\ PropertyOf(aiResult.value, "confidence") = Num(0)
  /\ engineOut.ok
  /\ response.status = 200

\* C17: Results share no object with the input: no Result holds the geometry
\* object of an input feature, and the input features are left as they were
\* by processOperation and by a later write to a returned Result's geometry.
C17_ResultsShareNothing ==
  [][/\ (pc' = "e_done" /\ engineOut'.ok)
         => \A k \in 1..Len(engineOut'.value) : engineOut'.value[k].geometryOf = NewObject
     /\ flatData' = flatData]_vars

\* queries of the shape "cities within N miles of <Place>"
CitiesWithinCases ==
  {[q |-> "cities within 50 miles of San Francisco", n |-> 50, place |-> "San Francisco"],
   [q |-> "cities within 5 miles of Paris", n |-> 5, place |-> "Paris"]}

\* queries whose only numeric phrase is an area
AreaOnlyCases ==
  {[q |-> "lakes larger than 100 square miles", n |-> 100],
   [q |-> "lakes larger than 7 square mile", n |-> 7]}

\* C18: for "cities within N miles of <Place>", matching, extraction and
\* createSpatialOperation yield a WITHIN operation on layer cities with
\* distance = N (a number) and target name = <Place>; a query with only an
\* area phrase sets the area and no distance.
C18_CitiesWithinOperation ==
  /\ \A c \in CitiesWithinCases :
       (pc = "t_done" /\ query.v = c.q)
         => /\ tplOp.type = Str("WITHIN")
            /\ tplOp.layers = Arr(<<"cities">>)
            /\ Param(tplOp, "distance") = Num(c.n)
            /\ Param(tplOp, "targetGeometry") = Str(c.place)
  /\ \A c \in AreaOnlyCases :
       (pc \in {"t_extracted", "t_done"} /\ query.v = c.q)
         => (DOMAIN params = {"area"} /\ params["area"] = Num(c.n))

\* the length of one linear unit, in hundredths of a meter
UnitCentimeters(units) ==
  CASE units = Str("miles") -> CentimetersPerMile
    [] units = Str("kilometers") -> 100000
    [] units = Str("meters") -> 100

\* the search radius of a WITHIN operation: `distance` in `units`, miles when
\* units is omitted
SearchRadius(op) ==
  Param(op, "distance").v * UnitCentimeters(Default(Param(op, "units"), Str("miles")))

\* the positions in data, in order, of the features whose distance to the
\* target is at most the radius
FeaturesWithin(op, data) ==
  LET Near(i) ==
        /\ HasGeometry(data[i])
        /\ TurfDistanceM(data[i], Param(op, "targetGeometry")).ok
        /\ TurfDistanceM(data[i], Param(op, "targetGeometry")).value <= SearchRadius(op)
  IN  SelectSeq([i \in 1..Len(data) |-> i], Near)

\* C19: WITHIN returns exactly the input features, in input order, whose
\* distance to the target is at most `distance` converted to meters according
\* to `units` (miles when omitted), each annotated with distance_to_target and
\* within_distance.
C19_WithinRadius ==
  (pc = "e_done" /\ spatialOperation.type = Str("WITHIN"))
    => /\ engineOut.ok
       /\ [k \in 1..Len(engineOut.value) |-> engineOut.value[k].geometryOf]
            = FeaturesWithin(spatialOperation, flatData)
       /\ \A k \in 1..Len(engineOut.value) :
            {"distance_to_target", "within_distance"}
              \subseteq DOMAIN engineOut.value[k].properties

\* the same operation with another minArea
WithMinArea(op, m) ==
  Op(op.type, Obj([k \in DOMAIN op.parameters.v |->
                    IF k = "minArea" THEN Num(m) ELSE op.parameters.v[k]]), op.layers)

\* the positions in data of the features a Result list was built from
ReturnedFrom(results) == {results[k].geometryOf : k \in 1..Len(results)}

\* area (square meters) >= minArea of the requested unit
AreaAtLeastIn(units, area, minArea) ==
  CASE units = Str("square_miles") -> AreaAtLeast(area, minArea)
    [] units = Str("square_kilometers") -> area >= minArea * 1000000

\* the positions in data of the features whose area in the requested unit
\* (square miles when units is omitted) is at least minArea
FeaturesAtLeast(op, data) ==
  {i \in 1..Len(data) :
     /\ HasGeometry(data[i])
     /\ AreaAtLeastIn(Default(Param(op, "units"), Str("square_miles")),
                      data[i].geometry.area, Param(op, "minArea").v)}

\* the features AREA_FILTER returns never grow when minArea is raised
AreaFilterMonotonic(op, data) ==
  \A m \in 0..Param(op, "minArea").v :
    /\ processAreaFilter(WithMinArea(op, m), data).ok
    /\ ReturnedFrom(processAreaFilter(op, data).value)
         \subseteq ReturnedFrom(processAreaFilter(WithMinArea(op, m), data).value)

\* C20: AREA_FILTER is monotonic in minArea: for the same feature list and
\* units, what is returned for minArea = m2 is a subset of what is returned
\* for every m1 <= m2; a feature is returned iff its area in the requested
\* unit is at least minArea.
C20_AreaFilterMonotonic ==
  (/\ pc = "e_done"
   /\ spatialOperation.type = Str("AREA_FILTER")
   /\ \A i \in 1..Len(flatData) : ~IsMalformed(flatData[i]))
    => /\ engineOut.ok
       /\ AreaFilterMonotonic(spatialOperation, flatData)
       /\ ReturnedFrom(engineOut.value) = FeaturesAtLeast(spatialOperation, flatData)

\* the library buffers feature f by the distance of op: it neither throws nor
\* returns nothing
BuffersSuccessfully(op, f) ==
  LET buffered == TurfBuffer(f, ToMeters(Param(op, "distance"),
                                         Default(Param(op, "units"), Str("miles"))))
  IN  buffered.ok /\ buffered.value # Undefined

\* the positions in data, in order, of the features that have a geometry and
\* buffer successfully
FeaturesBuffered(op, data) ==
  LET Buffered(i) == HasGeometry(data[i]) /\ BuffersSuccessfully(op, data[i])
  IN  SelectSeq([i \in 1..Len(data) |-> i], Buffered)

\* C21: BUFFER with distance d returns exactly one Result per input feature
\* that has a geometry and buffers successfully, in input order, and none for
\* a feature without geometry; each Result carries buffer_distance = d (the
\* requested number, not the meter value) and the source feature's properties.
C21_BufferOnePerFeature ==
  (pc = "e_done" /\ spatialOperation.type = Str("BUFFER"))
    => LET from == FeaturesBuffered(spatialOperation, flatData)
           returned == IF engineOut.ok THEN engineOut.value ELSE <<>>
       IN
         /\ Len(returned) = Len(from)
         /\ \A k \in 1..Len(from) :
              LET result == returned[k]
                  feature == flatData[from[k]]
              IN  /\ result.properties["buffer_distance"] = Param(spatialOperation, "distance")
                  /\ \A key \in DOMAIN feature.properties :
                       result.properties[key] = feature.properties[key]

\* a non-empty list of names of layers the Layer Store resolves
ValidLayers(layers) ==
  /\ layers.t = "array"
  /\ Len(layers.v) > 0
  /\ \A i \in 1..Len(layers.v) : IsString(layers.v[i]) /\ layers.v[i].v \in LAYER_MAP

\* the request's operation has been read from the oracle's answer or the body
OperationRead == spatialOperation # Undefined

\* C22: every operation the engine executes has a non-empty layers list of
\* resolvable layer names; an operation whose layers are missing, empty,
\* unknown or an unsubstituted placeholder is rejected before any layer is
\* fetched and before the engine runs.
C22_LayersValidated ==
  /\ \A k \in 1..Len(engineLog) : ValidLayers(engineLog[k].layers)
  /\ (OperationRead /\ ~ValidLayers(spatialOperation.layers))
       => (fetchLog = <<>> /\ engineLog = <<>> /\ response.status # 200)

\* C23: of two script-run requests handled concurrently, each runs the code
\* it submitted and answers with that script's stdout, stderr and exit code:
\* between the write of its file and the end of its run the file holds its
\* own code, whatever the other request does and whatever the clock shows.
C23_ScriptIsolation ==
  \A r \in Requests :
    /\ requests[r].pc \in {"spawned", "running"}
         => tempFiles[requests[r].tempFile] = requests[r].code
    /\ requests[r].pc \in {"running", "closed", "done"} /\ requests[r].tempFile # NoFile
         => requests[r].executed = requests[r].code
    /\ (requests[r].pc = "done" /\ requests[r].response.status = 200)
         => /\ requests[r].response.stdout = RunPython(requests[r].code).stdout
            /\ requests[r].response.stderr = RunPython(requests[r].code).stderr
            /\ requests[r].response.exitCode = RunPython(requests[r].code).exitCode

====
